---- MODULE Spec2Model ----
(***************************************************************************)
(* Model of the IVA ledger consolidation engine:                           *)
(*   - ExcelProcessor (Utils/excel_processor.py): read_excel, clean_data,  *)
(*     add_sheet_to_workbook, as operators on tables of cells;             *)
(*   - DriveHandler (Utils/drive_handler.py): the yearly workbook files    *)
(*     of the remote store;                                                *)
(*   - process_file (fastapi_app.py): the merge request, one action per    *)
(*     step of the handler.                                                *)
(* Amounts and exchange rates are integers (the code uses float64; no      *)
(* claim checked here depends on rounding).                                *)
(***************************************************************************)
EXTENDS Integers, Sequences, FiniteSets, TLC

(***************************************************************************)
(* Cells of a DataFrame.  k is the kind of the value: "num" (a number, v), *)
(* "nan" (missing, NaN or NaT), "str" (text, s: the sequence of its        *)
(* characters), "date" (a datetime, v = year*10000 + month*100 + day) and  *)
(* "empty" (the '' the totals row holds).                                  *)
(***************************************************************************)
Num(n) == [k |-> "num", v |-> n, s |-> << >>]

NaN == [k |-> "nan", v |-> 0, s |-> << >>]

Str(chars) == [k |-> "str", v |-> 0, s |-> chars]

Blank == [k |-> "empty", v |-> 0, s |-> << >>]

Date(y, m, d) == [k |-> "date", v |-> y * 10000 + m * 100 + d, s |-> << >>]

\* Column names of the export: the columns kept before "Moneda", and the monetary
\* columns after the marker.
BASE_COLUMNS ==
  <<"Fecha", "Tipo", "Punto de Venta", "Número Desde", "Nro. Doc. Receptor",
    "Denominación Receptor", "Tipo Cambio", "Moneda">>

ExtColumns == <<"Neto", "IVA">>

Range(seq) == {seq[i] : i \in 1..Len(seq)}

\* ---------------------------------------------------------------- text

\* Lower-case of one character (re.IGNORECASE / case=False).
UpperLower ==
  [c \in {"A","B","C","D","E","F","G","H","I","J","K","L","M","N","O","P","Q",
          "R","S","T","U","V","W","X","Y","Z","É"} |->
     CASE c = "A" -> "a" [] c = "B" -> "b" [] c = "C" -> "c" [] c = "D" -> "d"
       [] c = "E" -> "e" [] c = "F" -> "f" [] c = "G" -> "g" [] c = "H" -> "h"
       [] c = "I" -> "i" [] c = "J" -> "j" [] c = "K" -> "k" [] c = "L" -> "l"
       [] c = "M" -> "m" [] c = "N" -> "n" [] c = "O" -> "o" [] c = "P" -> "p"
       [] c = "Q" -> "q" [] c = "R" -> "r" [] c = "S" -> "s" [] c = "T" -> "t"
       [] c = "U" -> "u" [] c = "V" -> "v" [] c = "W" -> "w" [] c = "X" -> "x"
       [] c = "Y" -> "y" [] c = "Z" -> "z" [] c = "É" -> "é"]

LowerChar(c) == IF c \in DOMAIN UpperLower THEN UpperLower[c] ELSE c

Lower(chars) == [i \in 1..Len(chars) |-> LowerChar(chars[i])]

\* Whether pat occurs in chars as a contiguous run.
Contains(chars, pat) ==
  \E i \in 1..(Len(chars) - Len(pat) + 1) :
     \A j \in 1..Len(pat) : chars[i + j - 1] = pat[j]

\* str(value) as astype(str) gives it: a missing value reads "nan".
AsTypeStr(cell) ==
  CASE cell.k = "str" -> cell.s
    [] cell.k = "nan" -> <<"n", "a", "n">>
    [] OTHER -> << >>

\* The pattern 'nota de cr[eé]dito|nc', case-insensitive, anywhere in the text.
MatchesNotaCredito(chars) ==
  LET low == Lower(chars)
  IN  \/ Contains(low, <<"n","o","t","a"," ","d","e"," ","c","r","e","d","i","t","o">>)
      \/ Contains(low, <<"n","o","t","a"," ","d","e"," ","c","r","é","d","i","t","o">>)
      \/ Contains(low, <<"n","c">>)

\* is_nota_credito for one row.
is_nota_credito(row) == MatchesNotaCredito(AsTypeStr(row["Tipo"]))

\* ---------------------------------------------------------------- numbers

\* Element-wise product of two cells of numeric columns: NaN propagates.
Mul(a, b) == IF a.k = "num" /\ b.k = "num" THEN Num(a.v * b.v) ELSE NaN

\* cell > 0 (False for a missing value).
IsPositive(cell) == cell.k = "num" /\ cell.v > 0

\* Series.sum(): missing values are skipped, the sum of nothing is 0.
RECURSIVE SumCells(_)
SumCells(cells) ==
  IF cells = << >> THEN 0
  ELSE (IF Head(cells).k = "num" THEN Head(cells).v ELSE 0) + SumCells(Tail(cells))

\* ---------------------------------------------------------------- tables

\* A DataFrame: its column names in order and its rows, each a function from
\* column name to cell.
Column(df, col) == [i \in 1..Len(df.rows) |-> df.rows[i][col]]

\* Index.get_loc: the position of a column name, 0 standing for KeyError.
\* A lookup that answers the last position for a name that is not there (a
\* faulty variant).
get_loc_or_last(columns, name) ==
  IF \E i \in 1..Len(columns) : columns[i] = name
  THEN CHOOSE i \in 1..Len(columns) : columns[i] = name
  ELSE Len(columns)

get_loc(columns, name) ==
  IF name \in Range(columns)
  THEN CHOOSE i \in 1..Len(columns) : columns[i] = name
  ELSE 0

\* A column is dropped when it is all missing or all equal to zero.
ColumnIsEmpty(df, col) ==
  \/ \A i \in 1..Len(df.rows) : df.rows[i][col].k = "nan"
  \/ \A i \in 1..Len(df.rows) : df.rows[i][col].k = "num" /\ df.rows[i][col].v = 0

\* select_dtypes(float64, int64): a column of numbers and missing values.
IsNumericColumn(df, col) ==
  \A i \in 1..Len(df.rows) : df.rows[i][col].k \in {"num", "nan"}

\* strftime('%d/%m/%Y') of a datetime cell; NaT stays missing.
Digit(n) ==
  CASE n = 0 -> "0" [] n = 1 -> "1" [] n = 2 -> "2" [] n = 3 -> "3" [] n = 4 -> "4"
    [] n = 5 -> "5" [] n = 6 -> "6" [] n = 7 -> "7" [] n = 8 -> "8" [] n = 9 -> "9"

Digits(n, width) == [i \in 1..width |-> Digit((n \div (10 ^ (width - i))) % 10)]

strftime(cell) ==
  IF cell.k = "date"
  THEN Str(Digits(cell.v % 100, 2) \o <<"/">> \o Digits((cell.v \div 100) % 100, 2)
           \o <<"/">> \o Digits(cell.v \div 10000, 4))
  ELSE NaN

\* dtype of the Fecha column: object when it holds text (or no row at all),
\* datetime64 when it holds datetimes (and NaT), float64 when every cell is missing.
FechaIsObject(df) ==
  \/ df.rows = << >>
  \/ \E i \in 1..Len(df.rows) : df.rows[i]["Fecha"].k = "str"

FechaIsDatetime(df) ==
  /\ ~FechaIsObject(df)
  /\ \E i \in 1..Len(df.rows) : df.rows[i]["Fecha"].k = "date"

\* ---------------------------------------------------------------- clean_data

NoTable == [columns |-> << >>, rows |-> << >>]

\* df.columns[moneda_idx + 1:]
columns_after_moneda(df) ==
  SubSeq(df.columns, get_loc(df.columns, "Moneda") + 1, Len(df.columns))

\* A scrub that takes a column of zeros and gaps for an empty one (a faulty
\* variant).
columns_to_drop_zero_or_nan(df) ==
  {col \in Range(columns_after_moneda(df)) :
     \A i \in 1..Len(df.rows) : df.rows[i][col].k = "nan" \/ df.rows[i][col] = Num(0)}

columns_to_drop(df) ==
  {col \in Range(columns_after_moneda(df)) : ColumnIsEmpty(df, col)}

\* DataFrame.drop(columns=...)
drop(df, cols) ==
  LET kept == SelectSeq(df.columns, LAMBDA c : c \notin cols)
  IN  [columns |-> kept,
       rows |-> [i \in 1..Len(df.rows) |-> [c \in Range(kept) |-> df.rows[i][c]]]]

\* The numeric columns left after the marker (computed on the pruned frame).
numeric_cols(df) ==
  {col \in Range(columns_after_moneda(df)) : IsNumericColumn(df, col)}

\* A sign step that leaves every amount as scaled (a faulty variant, kept to show
\* that the sign properties tell it from the code's).
SignNeverFlipped(row, scaled) == scaled

\* One amount of one row: times the row's exchange rate, then negated when the row
\* is a credit note and the scaled value is positive.

SignCorrect(row, scaled) ==
  IF is_nota_credito(row) /\ IsPositive(scaled) THEN Num(-scaled.v) ELSE scaled

ScaleAndSign(row, col) == SignCorrect(row, Mul(row[col], row["Tipo Cambio"]))

scale_rows(df, ncols) ==
  [i \in 1..Len(df.rows) |->
     [c \in Range(df.columns) |->
        IF c \in ncols THEN ScaleAndSign(df.rows[i], c) ELSE df.rows[i][c]]]

format_fecha(df, rows) ==
  IF FechaIsObject(df)
  THEN rows
  ELSE [i \in 1..Len(rows) |-> [rows[i] EXCEPT !["Fecha"] = strftime(@)]]

\* A totals row that sums every column of numbers, the exchange rate too (a
\* faulty variant).
totals_row_every_number(columns, rows, ncols) ==
  [c \in Range(columns) |->
     IF \A i \in 1..Len(rows) : rows[i][c].k \in {"num", "nan"}
     THEN Num(SumCells([i \in 1..Len(rows) |-> rows[i][c]]))
     ELSE Blank]

totals_row(columns, rows, ncols) ==
  [c \in Range(columns) |->
     IF c \in ncols
     THEN Num(SumCells([i \in 1..Len(rows) |-> rows[i][c]]))
     ELSE Blank]

\* clean_data: [error, df].  error is "" when a table is returned.
clean_data(self_df) ==
  IF get_loc(self_df.columns, "Moneda") = 0
  THEN [error |-> "No se encontró la columna 'Moneda' en el Excel", df |-> NoTable]
  ELSE IF ~FechaIsObject(self_df) /\ ~FechaIsDatetime(self_df)
  THEN [error |-> "Can only use .dt accessor with datetimelike values", df |-> NoTable]
  ELSE LET pruned == drop(self_df, columns_to_drop(self_df))
           ncols  == numeric_cols(pruned)
           rows   == format_fecha(pruned, scale_rows(pruned, ncols))
       IN  [error |-> "",
            df |-> [columns |-> pruned.columns,
                    rows |-> Append(rows, totals_row(pruned.columns, rows, ncols))]]

\* ---------------------------------------------------------------- read_excel

\* An exported ledger file: row 1 is the banner, row 2 the column names, then the
\* data rows.  read_excel skips the banner (skiprows=1).
read_excel(file) == [columns |-> file.columns, rows |-> file.rows]

\* A clean_data that works on self.df itself and leaves its result there (a
\* faulty variant).
df_replaced_by_result(self_df) == clean_data(self_df).df

\* clean_data builds its result on a copy: self.df is left as it was read.

df_after_clean(self_df) == self_df

\* ---------------------------------------------------------------- detect_month

DigitValue ==
  [c \in {"0","1","2","3","4","5","6","7","8","9"} |->
     CASE c = "0" -> 0 [] c = "1" -> 1 [] c = "2" -> 2 [] c = "3" -> 3 [] c = "4" -> 4
       [] c = "5" -> 5 [] c = "6" -> 6 [] c = "7" -> 7 [] c = "8" -> 8 [] c = "9" -> 9]

IsDigit(c) == c \in DOMAIN DigitValue

AllDigits(chars) == \A i \in 1..Len(chars) : IsDigit(chars[i])

RECURSIVE ToNumber(_)
ToNumber(chars) ==
  IF chars = << >> THEN 0
  ELSE 10 * ToNumber(SubSeq(chars, 1, Len(chars) - 1)) + DigitValue[chars[Len(chars)]]

DaysInMonth(y, m) ==
  CASE m \in {4, 6, 9, 11} -> 30
    [] m = 2 -> IF (y % 4 = 0 /\ y % 100 # 0) \/ y % 400 = 0 THEN 29 ELSE 28
    [] OTHER -> 31

\* One text parsed with the format '%d/%m/%Y'; NaT (a missing value) when it does
\* not parse (errors='coerce').
strptime(chars) ==
  LET slashes == {i \in 1..Len(chars) : chars[i] = "/"}
  IN  IF Cardinality(slashes) # 2 THEN NaN
      ELSE LET a == CHOOSE i \in slashes : \A j \in slashes : i <= j
               b == CHOOSE i \in slashes : \A j \in slashes : i >= j
               ds == SubSeq(chars, 1, a - 1)
               ms == SubSeq(chars, a + 1, b - 1)
               ys == SubSeq(chars, b + 1, Len(chars))
           IN  IF /\ AllDigits(ds) /\ AllDigits(ms) /\ AllDigits(ys)
                  /\ Len(ds) \in 1..2 /\ Len(ms) \in 1..2 /\ Len(ys) = 4
                  /\ ToNumber(ms) \in 1..12
                  /\ ToNumber(ys) >= 1
                  /\ ToNumber(ds) \in 1..DaysInMonth(ToNumber(ys), ToNumber(ms))
               THEN Date(ToNumber(ys), ToNumber(ms), ToNumber(ds))
               ELSE NaN

\* pd.to_datetime(..., format='%d/%m/%Y', errors='coerce') on one cell.
to_datetime(cell) ==
  CASE cell.k = "str" -> strptime(cell.s)
    [] cell.k = "date" -> cell
    [] OTHER -> NaN

MonthOf(date) == (date.v \div 100) % 100

YearOf(date) == date.v \div 10000

\* The dates of the rows that are left after the conversion and dropna: the
\* column is converted only when its dtype is object.
valid_dates(df) ==
  LET fechas == [i \in 1..Len(df.rows) |->
                   IF FechaIsObject(df) THEN to_datetime(df.rows[i]["Fecha"])
                   ELSE df.rows[i]["Fecha"]]
  IN  SelectSeq(fechas, LAMBDA f : f.k = "date")

\* value_counts(): month -> number of rows.
month_counts(dates) ==
  [m \in {MonthOf(dates[i]) : i \in 1..Len(dates)} |->
     Cardinality({i \in 1..Len(dates) : MonthOf(dates[i]) = m})]

\* idxmax() of the counts: the first label of the highest count in the order
\* value_counts gives.  Among equal counts that order is the one of pandas'
\* hash table: the order of first appearance in the rows, or, in builds whose
\* table is walked by hash, the ascending order of the small integers.
idxmax(dates) ==
  LET counts == month_counts(dates)
      top == {m \in DOMAIN counts : \A n \in DOMAIN counts : counts[n] <= counts[m]}
      first(m) == CHOOSE i \in 1..Len(dates) :
                    /\ MonthOf(dates[i]) = m
                    /\ \A j \in 1..(i - 1) : MonthOf(dates[j]) # m
  IN  {m \in top : \A n \in top : first(m) <= first(n)}
        \cup {m \in top : \A n \in top : m <= n}

\* year_series.mode()[0]: the most frequent year of the rows of the month, the
\* smallest one of them when several are.
year_mode(dates, month) ==
  LET years == {YearOf(dates[i]) : i \in {j \in 1..Len(dates) : MonthOf(dates[j]) = month}}
      n(y) == Cardinality({i \in 1..Len(dates) :
                             MonthOf(dates[i]) = month /\ YearOf(dates[i]) = y})
      modes == {y \in years : \A z \in years : n(z) <= n(y)}
  IN  CHOOSE y \in modes : \A z \in modes : y <= z

\* detect_month: the results the call can give, [error, month, year].
detect_month(df) ==
  LET dates == valid_dates(df)
  IN  IF Len(dates) = 0
      THEN {[error |-> "No se encontraron fechas válidas en el archivo",
             month |-> 0, year |-> 0]}
      ELSE {[error |-> "", month |-> m, year |-> year_mode(dates, m)] : m \in idxmax(dates)}

\* ---------------------------------------------------------------- detect_info_from_header

IsSpace(c) == c = " "

\* \w of the regular expressions: letters, digits and the underscore.
IsWordChar(c) ==
  \/ IsDigit(c)
  \/ c = "_"
  \/ LowerChar(c) \in {"a","b","c","d","e","f","g","h","i","j","k","l","m","n","o","p",
                       "q","r","s","t","u","v","w","x","y","z","é"}

\* The length of a CUIT, \d{11}.
CuitDigits == 11

\* The first position from i on that holds no white space (\s*).
SkipSpaces(chars, i) ==
  CHOOSE j \in i..(Len(chars) + 1) :
    /\ j = Len(chars) + 1 \/ ~IsSpace(chars[j])
    /\ \A k \in i..(j - 1) : IsSpace(chars[k])

\* The leftmost element of a set of positions, 0 when there is none.
Leftmost(positions) ==
  IF positions = {} THEN 0 ELSE CHOOSE i \in positions : \A j \in positions : i <= j

\* re.search(r'CUIT\s*[:\-]?\s*(\d{11})', header_text, re.IGNORECASE): group 1,
\* << >> when nothing matches.
cuit_after_marker(text) ==
  LET low == Lower(text)
      digits_at(i) ==
        LET a == SkipSpaces(text, i + 4)
            b == IF a <= Len(text) /\ text[a] \in {":", "-"} THEN a + 1 ELSE a
        IN  SkipSpaces(text, b)
      matches == {i \in 1..(Len(text) - 3) :
                    /\ SubSeq(low, i, i + 3) = <<"c","u","i","t">>
                    /\ digits_at(i) + CuitDigits - 1 <= Len(text)
                    /\ AllDigits(SubSeq(text, digits_at(i), digits_at(i) + CuitDigits - 1))}
      at == Leftmost(matches)
  IN  IF at = 0 THEN << >>
      ELSE SubSeq(text, digits_at(at), digits_at(at) + CuitDigits - 1)

\* re.search(r'\b(\d{11})\b', header_text): group 1, << >> when nothing matches.
bare_cuit(text) ==
  LET matches == {i \in 1..(Len(text) - CuitDigits + 1) :
                    /\ AllDigits(SubSeq(text, i, i + CuitDigits - 1))
                    /\ i = 1 \/ ~IsWordChar(text[i - 1])
                    /\ i + CuitDigits > Len(text) \/ ~IsWordChar(text[i + CuitDigits])}
      at == Leftmost(matches)
  IN  IF at = 0 THEN << >> ELSE SubSeq(text, at, at + CuitDigits - 1)

MentionsHeader(text) ==
  \/ Contains(Lower(text), <<"c","o","m","p","r","o","b","a","n","t","e","s">>)
  \/ Contains(Lower(text), <<"c","u","i","t">>)

\* The text that is examined: the first cell of the first row, or, when that one
\* has neither word, the first of the first five cells that has one.
header_text(cells) ==
  IF MentionsHeader(cells[1]) THEN cells[1]
  ELSE LET cols == {c \in 1..Len(cells) : c <= 5 /\ MentionsHeader(cells[c])}
       IN  IF cols = {} THEN cells[1] ELSE cells[Leftmost(cols)]

header_tipo(text) ==
  IF Contains(Lower(text), <<"e","m","i","t","i","d","o","s">>) THEN "ventas"
  ELSE IF Contains(Lower(text), <<"r","e","c","i","b","i","d","o","s">>) THEN "compras"
  ELSE ""

header_cuit(text) ==
  IF cuit_after_marker(text) # << >> THEN cuit_after_marker(text) ELSE bare_cuit(text)

\* A check that gives up only when both are missing (a faulty variant).
header_fails_when_both_missing(cuit, tipo) == cuit = << >> /\ tipo = ""

\* if not cuit or not tipo
header_fails(cuit, tipo) == cuit = << >> \/ tipo = ""

\* detect_info_from_header: [error, encabezado, cuit, tipo].  The message of the
\* ValueError is its fixed text around the examined header, kept here apart.
detect_info_from_header(file) ==
  LET text == header_text(file.banner)
      tipo == header_tipo(text)
      cuit == header_cuit(text)
  IN  IF header_fails(cuit, tipo)
      THEN [error |-> "No se pudo detectar CUIT o tipo en el encabezado.",
            encabezado |-> text, cuit |-> << >>, tipo |-> ""]
      ELSE [error |-> "", encabezado |-> << >>, cuit |-> cuit, tipo |-> tipo]

\* ---------------------------------------------------------------- workbooks

\* A workbook is the sequence of its sheets, a sheet a title and the table written
\* under it (row 1 the column names, then the rows).
sheetnames(wb) == [i \in 1..Len(wb) |-> wb[i].title]

\* The placeholder sheet create_year_file puts in a new yearly workbook.
TempSheet ==
  [title |-> "_temp",
   df |-> [columns |-> <<"Archivo temporal - Esta pestaña se eliminará al agregar datos">>,
           rows |-> << >>]]

remove(wb, title) == SelectSeq(wb, LAMBDA sh : sh.title # title)

\* add_sheet_to_workbook on the workbook of workbook_path: [result, wb].  (With
\* it, a faulty variant that leaves the placeholder sheet in the workbook.)
sheet_exists(wb, sheet_name) == sheet_name \in Range(sheetnames(wb))

add_sheet_keeping_temp(wb, sheet_name, df) ==
  IF sheet_exists(wb, sheet_name)
  THEN [result |-> "exists", wb |-> wb]
  ELSE [result |-> "success", wb |-> Append(wb, [title |-> sheet_name, df |-> df])]

add_sheet_to_workbook(wb, sheet_name, df) ==
  IF sheet_exists(wb, sheet_name)
  THEN [result |-> "exists", wb |-> wb]
  ELSE LET kept == IF "_temp" \in Range(sheetnames(wb)) THEN remove(wb, "_temp") ELSE wb
       IN  [result |-> "success",
            wb |-> Append(kept, [title |-> sheet_name, df |-> df])]

\* ---------------------------------------------------------------- DriveHandler

XLSX == "application/vnd.openxmlformats-officedocument.spreadsheetml.sheet"

GSHEET == "application/vnd.google-apps.spreadsheet"

\* str.capitalize() and str.lower() on the ledger types the form sends.
capitalize(tipo) ==
  CASE tipo \in {"ventas", "Ventas"} -> "Ventas"
    [] tipo \in {"compras", "Compras"} -> "Compras"

lower(tipo) ==
  CASE tipo \in {"ventas", "Ventas"} -> "ventas"
    [] tipo \in {"compras", "Compras"} -> "compras"

\* f"Libro Iva {tipo.capitalize()} {year} {client_name}.xlsx"
filename(client_name, tipo, year) ==
  <<"Libro Iva", capitalize(tipo), year, client_name, ".xlsx">>

\* The Ventas or Compras folder of the client.
folder_id(client_name, tipo) ==
  <<client_name, IF lower(tipo) = "ventas" THEN "Ventas" ELSE "Compras">>

NoFile == [exists |-> FALSE, name |-> << >>, parent |-> << >>, mime |-> "", wb |-> << >>]

\* The files a files().list query for the yearly workbook returns.
year_file_items(files, client_name, tipo, year) ==
  {id \in DOMAIN files :
     /\ files[id].exists
     /\ files[id].name = filename(client_name, tipo, year)
     /\ files[id].parent = folder_id(client_name, tipo)}

\* upload_file: a new file, stored as an Excel binary.
upload_file(files, id, wb, parent, name) ==
  [files EXCEPT ![id] = [exists |-> TRUE, name |-> name, parent |-> parent,
                         mime |-> XLSX, wb |-> wb]]

\* create_year_file: a workbook holding only the placeholder sheet.  (First, a
\* faulty variant that names the file with tipo as it was given.)
create_year_file_uncapitalized(files, id, client_name, tipo, year) ==
  upload_file(files, id, <<TempSheet>>, folder_id(client_name, tipo),
              <<"Libro Iva", tipo, year, client_name, ".xlsx">>)

create_year_file(files, id, client_name, tipo, year) ==
  upload_file(files, id, <<TempSheet>>, folder_id(client_name, tipo),
              filename(client_name, tipo, year))

\* files().delete
delete(files, id) == [files EXCEPT ![id] = NoFile]

\* download_file: the workbook of the file (a Google Sheets file is exported as
\* Excel).
download_file(files, id) == files[id].wb

\* update_file on a file that is a Google Sheets document: delete it, and, when
\* it had a parent folder, upload the Excel under the same name and parent as a
\* new file.  (First, a faulty variant that stops after the delete.)
update_file_delete_only(files, id, newId, wb) == delete(files, id)

update_file_recreate(files, id, newId, wb) ==
  IF files[id].parent # << >>
  THEN upload_file(delete(files, id), newId, wb, files[id].parent, files[id].name)
  ELSE delete(files, id)

\* update_file on an Excel file: the content is replaced in place.  (First, a
\* faulty variant that keeps the stored sheets and adds the new ones to them.)
update_file_merging(files, id, wb) ==
  [files EXCEPT ![id].wb =
     files[id].wb \o SelectSeq(wb, LAMBDA sh : ~sheet_exists(files[id].wb, sh.title))]

update_file_media(files, id, wb) == [files EXCEPT ![id].wb = wb]

\* ---------------------------------------------------------------- temp files

\* A temporary file of a request is "none" (not created), "exists", "locked"
\* (os.unlink raised PermissionError on it) or "deleted".
OnDisk(status) == status \in {"exists", "locked"}

\* The retry loop of process_file: up to `attempts` rounds; a round unlinks the
\* saved upload, then the downloaded copy, and ends the loop when neither unlink
\* raised.  lockIn and lockDl are the number of rounds during which the file is
\* still held open (Windows), so that unlink raises PermissionError; rounds is the
\* number of rounds the loop ran.  (First, a faulty variant that goes on until
\* both files are released.)
RECURSIVE cleanup_loop_until_released(_, _, _, _, _, _)
cleanup_loop_until_released(attempt, attempts, tmp_input, downloaded_file, lockIn, lockDl) ==
  IF OnDisk(tmp_input) /\ attempt < lockIn
  THEN cleanup_loop_until_released(attempt + 1, attempts, "locked", downloaded_file,
                                   lockIn, lockDl)
  ELSE LET tin == IF OnDisk(tmp_input) THEN "deleted" ELSE tmp_input
       IN  IF OnDisk(downloaded_file) /\ attempt < lockDl
           THEN cleanup_loop_until_released(attempt + 1, attempts, tin, "locked",
                                            lockIn, lockDl)
           ELSE [tmp_input |-> tin,
                 downloaded_file |->
                   IF OnDisk(downloaded_file) THEN "deleted" ELSE downloaded_file,
                 rounds |-> attempt + 1]

RECURSIVE cleanup_loop(_, _, _, _, _, _)
cleanup_loop(attempt, attempts, tmp_input, downloaded_file, lockIn, lockDl) ==
  IF attempt >= attempts
  THEN [tmp_input |-> tmp_input, downloaded_file |-> downloaded_file,
        rounds |-> attempt]
  ELSE IF OnDisk(tmp_input) /\ attempt < lockIn
  THEN cleanup_loop(attempt + 1, attempts, "locked", downloaded_file, lockIn, lockDl)
  ELSE LET tin == IF OnDisk(tmp_input) THEN "deleted" ELSE tmp_input
       IN  IF OnDisk(downloaded_file) /\ attempt < lockDl
           THEN cleanup_loop(attempt + 1, attempts, tin, "locked", lockIn, lockDl)
           ELSE [tmp_input |-> tin,
                 downloaded_file |->
                   IF OnDisk(downloaded_file) THEN "deleted" ELSE downloaded_file,
                 rounds |-> attempt + 1]

\* ---------------------------------------------------------------- state

VARIABLES
  drive,      \* the remote store: file id -> file
  nextId,     \* the id the store gives the next file it creates
  req,        \* the merge requests (process_file), one per caller
  log,        \* history: the merges that ended with a success response
  p_file,     \* a processor of its own: the ledger file it was built on,
  p_loaded,   \*   whether self.df is set,
  p_df,       \*   self.df,
  p_result,   \*   what its calls of clean_data returned,
  p_month,    \*   what its calls of detect_month returned,
  p_header,   \*   and what its calls of detect_info_from_header returned
  mapping,    \* cuit_mapper.mapping: CUIT -> client name
  folders,    \* the client folders of the store: client name -> its sub-folders
  client_req  \* the last request about a client, and its response

vars == <<drive, nextId, req, log, p_file, p_loaded, p_df, p_result, p_month, p_header,
               mapping, folders, client_req>>

\* Bounds of the model.
MaxFiles == 2

MaxRows == 2

\* range(3) and range(2): the rounds of the two cleanup loops.
SuccessAttempts == 3

ErrorAttempts == 2

FileIds == 1..MaxFiles

Procs == {"r1", "r2"}

\* The callers of the sequential specification.
SeqProcs == {"r1"}

Clients == {"Acme"}

Tipos == {"ventas"}

Years == {2025}

Months == {1, 2}

MonthNames == {"Enero", "Febrero", "_temp"}

\* ---------------------------------------------------------------- ledger files

\* The ledgers here carry the base columns clean_data reads, and the amounts.
AllColumns ==
  SelectSeq(BASE_COLUMNS, LAMBDA c : c \in {"Fecha", "Tipo", "Tipo Cambio", "Moneda"})
    \o ExtColumns

T_Factura == <<"F","a","c","t","u","r","a"," ","A">>

T_NotaCredito == <<"N","o","t","a"," ","d","e"," ","C","r","é","d","i","t","o"," ","A">>

T_NC == <<"N","C">>

\* A document type of the tax authority's list that is no credit note:
\* "Cbtes. A del Anexo I, Apartado A, inc. f)", shortened.
T_Inciso == <<"C","b","t","e","s","."," ","i","n","c","."," ","f",")">>

Pesos == Str(<<"$">>)

\* The first row of the file: its cells, as str() gives them.
Banner ==
  << <<"M","i","s"," ","C","o","m","p","r","o","b","a","n","t","e","s"," ","E","m","i","t","i","d","o","s"," ","-"," ","C","U","I","T"," ","3","0","7","1","6","8","2","0","0","8","0">> >>

Row(fecha, tipo, tc, neto, iva) ==
  [c \in Range(AllColumns) |->
     CASE c = "Fecha" -> fecha
       [] c = "Tipo" -> Str(tipo)
       [] c = "Tipo Cambio" -> tc
       [] c = "Moneda" -> Pesos
       [] c = "Neto" -> neto
       [] c = "IVA" -> iva]

\* The files the callers upload: two ledgers and a file without the marker column.
LedgerFiles ==
  [f \in {"enero.xlsx", "febrero.xlsx", "sin_moneda.xlsx"} |->
     CASE f = "enero.xlsx" ->
            [banner |-> Banner, columns |-> AllColumns,
             rows |-> << Row(Date(2025, 1, 10), T_NotaCredito, Num(2), Num(3), Num(0)),
                         Row(Date(2025, 1, 15), T_Factura, Num(1), Num(5), Num(0)) >>]
       [] f = "febrero.xlsx" ->
            [banner |-> Banner, columns |-> AllColumns,
             rows |-> << Row(Str(<<"0","1","/","0","2","/","2","0","2","5">>),
                             T_Factura, Num(2), Num(1), Num(4)) >>]
       [] f = "sin_moneda.xlsx" ->
            [banner |-> Banner, columns |-> <<"Fecha", "Tipo", "Tipo Cambio", "Neto">>,
             rows |-> << [c \in {"Fecha", "Tipo", "Tipo Cambio", "Neto"} |->
                            CASE c = "Fecha" -> Date(2025, 1, 10)
                              [] c = "Tipo" -> Str(T_Factura)
                              [] c = "Tipo Cambio" -> Num(1)
                              [] c = "Neto" -> Num(7)] >>]]

\* The ledger files the standalone processor is tried on: every table of up to
\* MaxRows rows over these cells.
TipoValues == {T_Factura, T_NotaCredito, T_NC, T_Inciso}

RateValues == {NaN, Num(2)}

NetoValues == {NaN, Num(0), Num(2), Str(<<"x">>)}

IvaValues == {Num(0), Num(-3)}

RowValues ==
  {Row(Str(<<"1","0","/","0","1","/","2","0","2","5">>), t, r, n, i) :
     t \in TipoValues, r \in RateValues, n \in NetoValues, i \in IvaValues}

InputFiles ==
  {[banner |-> Banner, columns |-> AllColumns, rows |-> rows] :
     rows \in UNION {[1..n -> RowValues] : n \in 0..MaxRows}}

\* ---------------------------------------------------------------- requests

IdleReq ==
  [pc |-> "idle", file |-> "", client |-> "", tipo |-> "", year |-> 0, month |-> 0,
   month_name |-> "", create_if_not_exists |-> FALSE,
   tmp_input |-> "none", downloaded_file |-> "none",
   df |-> NoTable, df_clean |-> NoTable,
   located |-> "", file_id |-> 0, wb |-> << >>,
   response |-> "", detail |-> "",
   \* history: the remote writes of this request, whether its month had been
   \* committed before it began, the store as it was when it began, the steps of
   \* the protocol it has issued, the workbook as it was fetched, and the rounds
   \* its cleanup loop ran
   writes |-> << >>, repeated |-> FALSE, store0 |-> << >>,
   steps |-> << >>, fetched |-> << >>, rounds |-> 0]

\* No request about a client yet: the registry and the store hold no client.
IdleClientReq ==
  [op |-> "", cuit |-> "", old_cuit |-> "", name |-> "", status |-> "", detail |-> "",
   \* history: the registry and the folders as they were when the request began
   mapping0 |-> << >>, folders0 |-> << >>]

NoClients ==
  /\ mapping = << >>
  /\ folders = << >>
  /\ client_req = IdleClientReq

\* History: the (workbook, month) pairs whose merge ended with success.
CommittedMonths(client, tipo, year) ==
  {e.month : e \in {x \in log : x.name = filename(client, tipo, year)
                                  /\ x.parent = folder_id(client, tipo)}}

Init ==
  /\ drive = [id \in FileIds |-> NoFile]
  /\ nextId = 1
  /\ req = [p \in Procs |-> IdleReq]
  /\ log = {}
  /\ p_file = LedgerFiles["enero.xlsx"]
  /\ p_loaded = FALSE
  /\ p_df = NoTable
  /\ p_result = << >>
  /\ p_month = << >>
  /\ p_header = << >>
  /\ NoClients

\* process_file, steps 1 and 2: the upload is saved to a temporary file, read and
\* cleaned.  An exception of clean_data goes to the generic handler.
StartRequestOf(p, files, months, names) ==
  /\ req[p].pc = "idle"
  /\ \E f \in files, c \in Clients, t \in Tipos, y \in Years,
        m \in months, n \in names, confirm \in BOOLEAN :
       LET df == read_excel(LedgerFiles[f])
           cleaned == clean_data(df)
       IN  req' = [req EXCEPT ![p] =
                     [IdleReq EXCEPT
                        !.pc = IF cleaned.error = "" THEN "check" ELSE "error",
                        !.file = f, !.client = c, !.tipo = t, !.year = y,
                        !.month = m, !.month_name = n,
                        !.create_if_not_exists = confirm,
                        !.tmp_input = "exists",
                        !.df = df_after_clean(df),
                        !.df_clean = cleaned.df,
                        !.detail = cleaned.error,
                        !.repeated = m \in CommittedMonths(c, t, y),
                        !.store0 = drive]]
  /\ UNCHANGED <<drive, nextId, log, p_file, p_loaded, p_df, p_result, p_month, p_header,
               mapping, folders, client_req>>

StartRequest(p) == StartRequestOf(p, DOMAIN LedgerFiles, Months, MonthNames)

\* One request at a time.
Start(p) ==
  /\ \A q \in Procs : req[q].pc = "idle"
  /\ StartRequest(p)

\* A gate that never asks (a faulty variant).
confirmation_never_needed(exists, create_if_not_exists) == FALSE

\* Whether the handler stops to ask the caller for confirmation.

needs_confirmation(exists, create_if_not_exists) ==
  ~exists /\ ~create_if_not_exists

\* Step 3: check_year_file_exists, then the confirmation gate.
Check(p) ==
  /\ req[p].pc = "check"
  /\ \E ok \in BOOLEAN :
       LET r == req[p]
           items == year_file_items(drive, r.client, r.tipo, r.year)
       IN  IF ~ok
           THEN req' = [req EXCEPT ![p].pc = "error", ![p].detail = "drive: list failed",
                                   ![p].steps = Append(@, "locate")]
           ELSE IF items = {}
           THEN IF needs_confirmation(FALSE, r.create_if_not_exists)
                THEN req' = [req EXCEPT ![p].pc = "done", ![p].located = "absent",
                                        ![p].response = "needs_confirmation",
                                        ![p].steps = Append(@, "locate")]
                ELSE req' = [req EXCEPT ![p].pc = "create", ![p].located = "absent",
                                        ![p].steps = Append(@, "locate")]
           ELSE \E id \in items :
                  req' = [req EXCEPT ![p].pc = "download", ![p].located = "present",
                                     ![p].file_id = id,
                                     ![p].steps = Append(@, "locate")]
  /\ UNCHANGED <<drive, nextId, log, p_file, p_loaded, p_df, p_result, p_month, p_header,
               mapping, folders, client_req>>

\* Step 3, the confirmed creation: create_year_file.
Create(p) ==
  /\ req[p].pc = "create"
  /\ \E ok \in BOOLEAN :
       IF ~ok
       THEN /\ req' = [req EXCEPT ![p].pc = "error", ![p].detail = "drive: create failed",
                                  ![p].steps = Append(@, "create")]
            /\ UNCHANGED <<drive, nextId>>
       ELSE /\ nextId \in FileIds
            /\ drive' = create_year_file(drive, nextId, req[p].client, req[p].tipo,
                                         req[p].year)
            /\ nextId' = nextId + 1
            /\ req' = [req EXCEPT ![p].pc = "download", ![p].file_id = nextId,
                                  ![p].writes = Append(@, "create"),
                                  ![p].steps = Append(@, "create")]
  /\ UNCHANGED <<log, p_file, p_loaded, p_df, p_result, p_month, p_header,
               mapping, folders, client_req>>

\* Step 4: a temporary file is made for the working copy, then download_file.
Download(p) ==
  /\ req[p].pc = "download"
  /\ \E ok \in BOOLEAN :
       IF ~ok \/ ~drive[req[p].file_id].exists
       THEN req' = [req EXCEPT ![p].pc = "error", ![p].downloaded_file = "exists",
                               ![p].detail = "drive: download failed",
                               ![p].steps = Append(@, "fetch")]
       ELSE req' = [req EXCEPT ![p].pc = "merge", ![p].downloaded_file = "exists",
                               ![p].wb = download_file(drive, req[p].file_id),
                               ![p].fetched = download_file(drive, req[p].file_id),
                               ![p].steps = Append(@, "fetch")]
  /\ UNCHANGED <<drive, nextId, log, p_file, p_loaded, p_df, p_result, p_month, p_header,
               mapping, folders, client_req>>

\* Step 5: add_sheet_to_workbook on the working copy; "exists" raises the
\* HTTPException(400), which the handler re-raises as it is.
AddSheet(p) ==
  /\ req[p].pc = "merge"
  /\ LET r == add_sheet_to_workbook(req[p].wb, req[p].month_name, req[p].df_clean)
     IN  IF r.result = "exists"
         THEN req' = [req EXCEPT ![p].pc = "done", ![p].response = "http400",
                                 ![p].detail = "La pestaña ya existe",
                                 ![p].steps = Append(@, "add_sheet")]
         ELSE req' = [req EXCEPT ![p].pc = "upload", ![p].wb = r.wb,
                                 ![p].steps = Append(@, "add_sheet")]
  /\ UNCHANGED <<drive, nextId, log, p_file, p_loaded, p_df, p_result, p_month, p_header,
               mapping, folders, client_req>>

\* Step 6: update_file.  A call of the store may fail: before anything is
\* written, or, for a Google Sheets file, between the delete and the upload.
Update(p) ==
  /\ req[p].pc = "upload"
  /\ \E outcome \in {"ok", "fail", "fail_after_delete"} :
       LET id == req[p].file_id
       IN  IF outcome = "fail" \/ ~drive[id].exists
           THEN /\ req' = [req EXCEPT ![p].pc = "error",
                                      ![p].detail = "drive: update failed",
                                      ![p].steps = Append(@, "replace")]
                /\ UNCHANGED <<drive, nextId>>
           ELSE IF drive[id].mime = GSHEET
           THEN IF outcome = "fail_after_delete"
                THEN /\ drive' = delete(drive, id)
                     /\ req' = [req EXCEPT ![p].pc = "error",
                                           ![p].detail = "drive: upload failed",
                                           ![p].writes = Append(@, "delete"),
                                           ![p].steps = Append(@, "replace")]
                     /\ UNCHANGED nextId
                ELSE /\ nextId \in FileIds
                     /\ drive' = update_file_recreate(drive, id, nextId, req[p].wb)
                     /\ nextId' = nextId + 1
                     /\ req' = [req EXCEPT ![p].pc = "cleanup",
                                           ![p].writes = @ \o <<"delete", "upload">>,
                                           ![p].steps = Append(@, "replace")]
           ELSE /\ outcome = "ok"
                /\ drive' = update_file_media(drive, id, req[p].wb)
                /\ req' = [req EXCEPT ![p].pc = "cleanup",
                                      ![p].writes = Append(@, "replace"),
                                      ![p].steps = Append(@, "replace")]
                /\ UNCHANGED nextId
  /\ UNCHANGED <<log, p_file, p_loaded, p_df, p_result, p_month, p_header,
               mapping, folders, client_req>>

\* Step 7: the cleanup loop of the success path, then the success response.
Cleanup(p) ==
  /\ req[p].pc = "cleanup"
  /\ \E lockIn \in 0..SuccessAttempts, lockDl \in 0..SuccessAttempts :
       LET r == req[p]
           left == cleanup_loop(0, SuccessAttempts, r.tmp_input, r.downloaded_file,
                                lockIn, lockDl)
       IN  /\ req' = [req EXCEPT ![p].pc = "done", ![p].response = "success",
                                 ![p].tmp_input = left.tmp_input,
                                 ![p].downloaded_file = left.downloaded_file,
                                 ![p].rounds = left.rounds]
           /\ log' = log \cup {[name |-> filename(r.client, r.tipo, r.year),
                                parent |-> folder_id(r.client, r.tipo),
                                month |-> r.month, title |-> r.month_name,
                                file |-> r.file]}
  /\ UNCHANGED <<drive, nextId, p_file, p_loaded, p_df, p_result, p_month, p_header,
               mapping, folders, client_req>>

\* except Exception: the cleanup loop of the error path, then HTTPException(500).
\* (First, a faulty variant that issues the failed remote call once more.)
ErrorCleanupRetrying(p) ==
  /\ req[p].pc = "error"
  /\ req[p].steps # << >>
  /\ req' = [req EXCEPT ![p].pc =
               CASE req[p].steps[Len(req[p].steps)] = "replace" -> "upload"
                 [] req[p].steps[Len(req[p].steps)] = "create" -> "create"
                 [] OTHER -> "done",
                         ![p].response =
               IF req[p].steps[Len(req[p].steps)] \in {"replace", "create"}
               THEN @ ELSE "http500"]
  /\ UNCHANGED <<drive, nextId, log, p_file, p_loaded, p_df, p_result, p_month, p_header,
               mapping, folders, client_req>>

ErrorCleanup(p) ==
  /\ req[p].pc = "error"
  /\ \E lockIn \in 0..ErrorAttempts, lockDl \in 0..ErrorAttempts :
       LET r == req[p]
           left == cleanup_loop(0, ErrorAttempts, r.tmp_input, r.downloaded_file,
                                lockIn, lockDl)
       IN  req' = [req EXCEPT ![p].pc = "done", ![p].response = "http500",
                              ![p].tmp_input = left.tmp_input,
                              ![p].downloaded_file = left.downloaded_file,
                                 ![p].rounds = left.rounds]
  /\ UNCHANGED <<drive, nextId, log, p_file, p_loaded, p_df, p_result, p_month, p_header,
               mapping, folders, client_req>>

\* The response has been sent; the caller may submit again.
Return(p) ==
  /\ req[p].pc = "done"
  /\ req' = [req EXCEPT ![p] = IdleReq]
  /\ UNCHANGED <<drive, nextId, log, p_file, p_loaded, p_df, p_result, p_month, p_header,
               mapping, folders, client_req>>

\* The store (or a user of it) turns a stored Excel file into a Google Sheets
\* document: the drift update_file looks for.
StoreDrift(id) ==
  /\ drive[id].exists
  /\ drive[id].mime = XLSX
  /\ nextId \in FileIds
  /\ drive' = [drive EXCEPT ![id].mime = GSHEET]
  /\ UNCHANGED <<nextId, req, log, p_file, p_loaded, p_df, p_result, p_month, p_header,
               mapping, folders, client_req>>

Merge(p) ==
  \/ Check(p)
  \/ Create(p)
  \/ Download(p)
  \/ AddSheet(p)
  \/ Update(p)
  \/ Cleanup(p)
  \/ ErrorCleanup(p)
  \/ Return(p)

\* Sequential operation: one caller, one merge at a time, the store changed by
\* the merges only.
Next ==
  \E p \in SeqProcs :
    \/ Start(p)
    \/ Check(p)
    \/ Create(p)
    \/ Download(p)
    \/ AddSheet(p)
    \/ Update(p)
    \/ Cleanup(p)
    \/ ErrorCleanup(p)
    \/ Return(p)

Spec == Init /\ [][Next]_vars

\* Sequential operation over a store whose files may drift to Google Sheets:
\* merges of the two ledgers, under the names of their months.
StartDrift(p) ==
  /\ \A q \in Procs : req[q].pc = "idle"
  /\ StartRequestOf(p, {"enero.xlsx", "febrero.xlsx"}, Months, {"Enero", "Febrero"})

NextDrift ==
  \/ \E p \in SeqProcs :
       \/ StartDrift(p)
       \/ Check(p)
       \/ Create(p)
       \/ Download(p)
       \/ AddSheet(p)
       \/ Update(p)
       \/ Cleanup(p)
       \/ ErrorCleanup(p)
       \/ Return(p)
  \/ \E id \in FileIds : StoreDrift(id)

SpecDrift == Init /\ [][NextDrift]_vars

\* Two callers at once on one store, one merge each: the merges interleave step
\* by step.
StartRace(p) ==
  StartRequestOf(p, DOMAIN LedgerFiles, Months, {"Enero", "Febrero"})

NextRace ==
  \E p \in Procs :
    \/ StartRace(p)
    \/ Check(p)
    \/ Create(p)
    \/ Download(p)
    \/ AddSheet(p)
    \/ Update(p)
    \/ Cleanup(p)
    \/ ErrorCleanup(p)

SpecRace == Init /\ [][NextRace]_vars

\* ---------------------------------------------------------------- the processor alone

InitClean ==
  /\ drive = [id \in FileIds |-> NoFile]
  /\ nextId = 1
  /\ req = [p \in Procs |-> IdleReq]
  /\ log = {}
  /\ p_file \in InputFiles
  /\ p_loaded = FALSE
  /\ p_df = NoTable
  /\ p_result = << >>
  /\ p_month = << >>
  /\ p_header = << >>
  /\ NoClients

\* clean_data on the processor (it reads the file first when self.df is None).
CleanData ==
  /\ p_result = << >>
  /\ LET df == IF p_loaded THEN p_df ELSE read_excel(p_file)
     IN  /\ p_loaded' = TRUE
         /\ p_df' = df_after_clean(df)
         /\ p_result' = <<clean_data(df)>>
  /\ UNCHANGED <<drive, nextId, req, log, p_file, p_month, p_header,
               mapping, folders, client_req>>

NextClean == CleanData

SpecClean == InitClean /\ [][NextClean]_vars

\* ---------------------------------------------------------------- the processor alone: detection

\* Bound of the files detect_month is tried on.
MaxDates == 3

\* The Fecha cells of those files: dates as text, a text that is no date, and a
\* missing value.
FechaValues ==
  {Str(<<"1","0","/","0","1","/","2","0","2","5">>),
   Str(<<"0","5","/","0","2","/","2","0","2","5">>),
   Str(<<"2","0","/","0","2","/","2","0","2","4">>),
   Str(<<"x">>),
   NaN}

DateFiles ==
  {[banner |-> Banner, columns |-> AllColumns,
    rows |-> [i \in DOMAIN fechas |-> Row(fechas[i], T_Factura, Num(1), Num(5), Num(0))]] :
     fechas \in UNION {[1..n -> FechaValues] : n \in 0..MaxDates}}
    \cup {LedgerFiles["enero.xlsx"]}

InitDetect ==
  /\ drive = [id \in FileIds |-> NoFile]
  /\ nextId = 1
  /\ req = [p \in Procs |-> IdleReq]
  /\ log = {}
  /\ p_file \in DateFiles
  /\ p_loaded = FALSE
  /\ p_df = NoTable
  /\ p_result = << >>
  /\ p_month = << >>
  /\ p_header = << >>
  /\ NoClients

\* detect_month on the processor (it reads the file first when self.df is None).
DetectMonth ==
  /\ p_month = << >>
  /\ LET df == IF p_loaded THEN p_df ELSE read_excel(p_file)
     IN  /\ p_loaded' = TRUE
         /\ p_df' = df
         /\ \E r \in detect_month(df) : p_month' = <<r>>
  /\ UNCHANGED <<drive, nextId, req, log, p_file, p_result, p_header,
               mapping, folders, client_req>>

NextDetect == DetectMonth \/ CleanData

SpecDetect == InitDetect /\ [][NextDetect]_vars

\* The first rows detect_info_from_header is tried on: a direction, a marker and
\* a run of digits, in the first cell or in the second one.
DirectionParts ==
  {<<"M","i","s"," ","C","o","m","p","r","o","b","a","n","t","e","s"," ","E","m","i","t","i","d","o","s">>,
   <<"M","i","s"," ","C","o","m","p","r","o","b","a","n","t","e","s"," ","R","e","c","i","b","i","d","o","s">>,
   <<"M","i","s"," ","C","o","m","p","r","o","b","a","n","t","e","s">>,
   <<"E","M","I","T","I","D","O","S">>,
   <<"L","i","b","r","o">>}

MarkerParts ==
  {<<" ","-"," ","C","U","I","T"," ">>, <<" ","C","U","I","T",":"," ">>, <<" ","c","u","i","t","-">>, <<" ">>}

DigitParts ==
  {<<"3","0","7","1","6","8","2","0","0","8","0">>, <<"3","0","7","1","6","8","2","0","0","8">>, <<"3","0","7","1","6","8","2","0","0","8","0","1">>, << >>}

HeaderFiles ==
  {[banner |-> cells, columns |-> AllColumns, rows |-> << >>] :
     cells \in UNION {{<<d \o m \o n>>, <<<<"n","a","n">>, d \o m \o n>>} :
                        d \in DirectionParts, m \in MarkerParts, n \in DigitParts}}

InitHeader ==
  /\ drive = [id \in FileIds |-> NoFile]
  /\ nextId = 1
  /\ req = [p \in Procs |-> IdleReq]
  /\ log = {}
  /\ p_file \in HeaderFiles
  /\ p_loaded = FALSE
  /\ p_df = NoTable
  /\ p_result = << >>
  /\ p_month = << >>
  /\ p_header = << >>
  /\ NoClients

\* detect_info_from_header on the processor: it reads the first row of the file.
DetectHeader ==
  /\ p_header = << >>
  /\ p_header' = <<detect_info_from_header(p_file)>>
  /\ UNCHANGED <<drive, nextId, req, log, p_file, p_loaded, p_df, p_result, p_month,
               mapping, folders, client_req>>

NextHeader == DetectHeader

SpecHeader == InitHeader /\ [][NextHeader]_vars

\* ---------------------------------------------------------------- clients

ClientNames == {"Acme", "Beta"}

Cuits == {"20111111112", "27222222223"}

\* None, as dict.get returns it.
None == "<None>"

\* CUITMapper.  (client_exists first in a faulty variant that knows no CUIT.)
client_exists_never(m, cuit) == FALSE

client_exists(m, cuit) == cuit \in DOMAIN m

get_client_by_cuit(m, cuit) == IF cuit \in DOMAIN m THEN m[cuit] ELSE None

\* mapping[cuit] = client_name
set_item(m, cuit, client_name) ==
  [c \in DOMAIN m \cup {cuit} |-> IF c = cuit THEN client_name ELSE m[c]]

\* del mapping[cuit]
del_item(m, cuit) == [c \in DOMAIN m \ {cuit} |-> m[c]]

add_client(m, cuit, client_name) == set_item(m, cuit, client_name)

\* DriveHandler.find_folder of a client under the root folder.
find_folder(fs, client_name) == client_name \in DOMAIN fs

\* DriveHandler.get_client_structure: [error, ventas_id, compras_id], the ids
\* being TRUE when the sub-folder is there.
get_client_structure(fs, client_name) ==
  IF ~find_folder(fs, client_name)
  THEN [error |-> "No se encontró el cliente", ventas_id |-> FALSE, compras_id |-> FALSE]
  ELSE [error |-> "", ventas_id |-> "Ventas" \in fs[client_name],
        compras_id |-> "Compras" \in fs[client_name]]

\* DriveHandler.create_client: the client folder, then Ventas, then Compras; fail
\* names the call of the store that raises ("none" when none does).
FailPoints == {"none", "list", "client", "ventas", "compras"}

drive_create_client(fs, client_name, fail) ==
  LET with(subs) == [n \in DOMAIN fs \cup {client_name} |->
                       IF n = client_name THEN subs ELSE fs[n]]
  IN  IF fail = "list"
      THEN [raised |-> TRUE, success |-> FALSE, message |-> "drive: list failed", fs |-> fs]
      ELSE IF find_folder(fs, client_name)
      THEN [raised |-> FALSE, success |-> FALSE, message |-> "ya existe", fs |-> fs]
      ELSE IF fail = "client"
      THEN [raised |-> TRUE, success |-> FALSE, message |-> "drive: create failed", fs |-> fs]
      ELSE IF fail = "ventas"
      THEN [raised |-> TRUE, success |-> FALSE, message |-> "drive: create failed",
            fs |-> with({})]
      ELSE IF fail = "compras"
      THEN [raised |-> TRUE, success |-> FALSE, message |-> "drive: create failed",
            fs |-> with({"Ventas"})]
      ELSE [raised |-> FALSE, success |-> TRUE, message |-> "creado exitosamente",
            fs |-> with({"Ventas", "Compras"})]

ClientReq(op, cuit, old_cuit, name, status, detail) ==
  [op |-> op, cuit |-> cuit, old_cuit |-> old_cuit, name |-> name,
   status |-> status, detail |-> detail, mapping0 |-> mapping, folders0 |-> folders]

\* POST /api/create-client
create_client ==
  /\ UNCHANGED <<drive, nextId, req, log, p_file, p_loaded, p_df, p_result,
                 p_month, p_header>>
  /\ \E client_name \in ClientNames, cuit \in Cuits, fail \in FailPoints,
     structure_fails \in BOOLEAN :
    LET Answer(status, detail) == ClientReq("create", cuit, "", client_name, status, detail)
        result == drive_create_client(folders, client_name, fail)
        structure == get_client_structure(folders, client_name)
    IN  IF client_exists(mapping, cuit)
        THEN /\ client_req' = Answer("http400", "El CUIT ya está registrado")
             /\ UNCHANGED <<mapping, folders>>
        ELSE IF result.raised
        THEN /\ client_req' = Answer("http500", result.message)
             /\ folders' = result.fs
             /\ UNCHANGED mapping
        ELSE IF ~result.success
        THEN IF /\ ~structure_fails
                /\ structure.error = ""
                /\ structure.ventas_id /\ structure.compras_id
             THEN /\ mapping' = add_client(mapping, cuit, client_name)
                  /\ client_req' = Answer("success", "ya existía en Drive")
                  /\ UNCHANGED folders
             ELSE /\ client_req' = Answer("http400", result.message)
                  /\ UNCHANGED <<mapping, folders>>
        ELSE /\ mapping' = add_client(mapping, cuit, client_name)
             /\ folders' = result.fs
             /\ client_req' = Answer("success", result.message)

\* POST /api/edit-client
edit_client ==
  /\ UNCHANGED <<drive, nextId, req, log, p_file, p_loaded, p_df, p_result,
                 p_month, p_header>>
  /\ \E old_cuit \in Cuits, new_name \in ClientNames, new_cuit \in Cuits :
    LET Answer(status, detail) == ClientReq("edit", new_cuit, old_cuit, new_name, status, detail)
        old_name == get_client_by_cuit(mapping, old_cuit)
        all_clients == IF old_cuit \in DOMAIN mapping THEN del_item(mapping, old_cuit)
                       ELSE mapping
    IN  IF old_name \in {None, ""}
        THEN /\ client_req' = Answer("http404", "Cliente no encontrado")
             /\ UNCHANGED <<mapping, folders>>
        ELSE IF old_cuit # new_cuit /\ client_exists(mapping, new_cuit)
        THEN /\ client_req' = Answer("http400", "El CUIT ya está registrado")
             /\ UNCHANGED <<mapping, folders>>
        ELSE /\ mapping' = set_item(all_clients, new_cuit, new_name)
             /\ client_req' = Answer("success", "Cliente actualizado exitosamente")
             /\ UNCHANGED folders

\* POST /api/process for a client the registry lists, up to the folder lookup of
\* check_year_file_exists.
process_listed_client ==
  /\ UNCHANGED <<drive, nextId, req, log, p_file, p_loaded, p_df, p_result,
                 p_month, p_header>>
  /\ \E cuit \in DOMAIN mapping, tipo \in {"ventas", "compras"} :
    LET client == mapping[cuit]
        structure == get_client_structure(folders, client)
        folder == IF tipo = "ventas" THEN structure.ventas_id ELSE structure.compras_id
    IN  /\ client_req' =
             IF structure.error # ""
             THEN ClientReq("process", cuit, "", client, "http500", structure.error)
             ELSE IF ~folder
             THEN ClientReq("process", cuit, "", client, "http500", "No se encontró la carpeta")
             ELSE ClientReq("process", cuit, "", client, "located", "")
        /\ UNCHANGED <<mapping, folders>>

NextClients ==
  \/ create_client
  \/ edit_client
  \/ process_listed_client

SpecClients == Init /\ [][NextClients]_vars

\* ---------------------------------------------------------------- properties

\* What the specification calls a credit-note type: the phrase "nota de crédito"
\* (with or without the accent, any case) or the abbreviation NC standing as a word.
IsLetter(c) ==
  LowerChar(c) \in {"a","b","c","d","e","f","g","h","i","j","k","l","m","n","o","p",
                    "q","r","s","t","u","v","w","x","y","z","é"}

HasWord(chars, word) ==
  \E i \in 1..(Len(chars) - Len(word) + 1) :
     /\ \A j \in 1..Len(word) : LowerChar(chars[i + j - 1]) = word[j]
     /\ i = 1 \/ ~IsLetter(chars[i - 1])
     /\ i + Len(word) - 1 = Len(chars) \/ ~IsLetter(chars[i + Len(word)])

DenotesCreditNote(chars) ==
  \/ Contains(Lower(chars), <<"n","o","t","a"," ","d","e"," ","c","r","é","d","i","t","o">>)
  \/ Contains(Lower(chars), <<"n","o","t","a"," ","d","e"," ","c","r","e","d","i","t","o">>)
  \/ HasWord(chars, <<"n","c">>)

\* The requests that have returned.
Done(p) == req[p].pc = "done"

Quiescent == \A p \in Procs : req[p].pc = "idle"

\* The table a request's upload cleans to.
CleanedUpload(file) == clean_data(read_excel(LedgerFiles[file])).df

\* The monetary columns a cleaned table retains: the columns after the marker that
\* hold only numbers and missing values in the input.
RetainedMonetary(input, out) ==
  {c \in Range(out.columns) :
     /\ get_loc(input.columns, c) > get_loc(input.columns, "Moneda")
     /\ \A i \in 1..Len(input.rows) : input.rows[i][c].k \in {"num", "nan"}}

\* The results of clean_data the standalone processor holds, with their input.
CleanedTables == {p_result[i].df : i \in {j \in 1..Len(p_result) : p_result[j].error = ""}}

\* The sum of the numbers of rows 1..n of a column.
RECURSIVE SumOfColumn(_, _, _)
SumOfColumn(rows, col, n) ==
  IF n = 0 THEN 0
  ELSE SumOfColumn(rows, col, n - 1) + (IF rows[n][col].k = "num" THEN rows[n][col].v ELSE 0)

\* C1 (as claimed): a merge whose (client, type, year, month) was committed by an
\* earlier merge, and which met no failure of the store, ends rejected (HTTP 400,
\* duplicate month) and has written nothing to the store.
C1_RepeatedMonthRejected ==
  \A p \in Procs :
    (Done(p) /\ req[p].repeated /\ req[p].response # "http500")
      => /\ req[p].response = "http400"
         /\ req[p].writes = << >>
         /\ drive = req[p].store0

\* C2: when locate reported the yearly workbook absent and the confirm-create flag
\* is false, the request has stopped with needs_confirmation and has written
\* nothing to the store.
C2_ConfirmationGate ==
  \A p \in Procs :
    (req[p].located = "absent" /\ ~req[p].create_if_not_exists)
      => /\ Done(p)
         /\ req[p].response = "needs_confirmation"
         /\ req[p].writes = << >>
         /\ drive = req[p].store0

C2_Witness ==
  \E p \in Procs :
    /\ Done(p)
    /\ req[p].located = "absent"
    /\ ~req[p].create_if_not_exists
    /\ req[p].response = "needs_confirmation"

\* C3 (as claimed): a merge that ends rejected (the sheet name is already in the
\* fetched copy) has performed no create and no replace: the store is as it was
\* when the merge began.
C3_RejectedLeavesStore ==
  \A p \in Procs :
    (Done(p) /\ req[p].response = "http400")
      => /\ req[p].writes = << >>
         /\ drive = req[p].store0

\* C4 (as claimed): no step removes or changes a sheet that a merge has put in a
\* remote workbook (any sheet but the placeholder), and the sheet names of every
\* remote workbook stay unique.
C4_MonthSheetsImmutable ==
  [][\A id \in FileIds :
       /\ drive[id].exists =>
            \A sh \in Range(drive[id].wb) :
               sh # TempSheet =>
                 \E id2 \in FileIds :
                    /\ drive'[id2].exists
                    /\ drive'[id2].name = drive[id].name
                    /\ drive'[id2].parent = drive[id].parent
                    /\ sh \in Range(drive'[id2].wb)
       /\ drive'[id].exists =>
            \A i, j \in 1..Len(drive'[id].wb) :
               drive'[id].wb[i].title = drive'[id].wb[j].title => i = j]_vars

\* C5 (as claimed): between merges, the remote workbook of a (client, type, year)
\* holds exactly one sheet per month whose merge ended with success and no other
\* sheet, each holding the cleaned table of the file uploaded for it.
C5_OneSheetPerCommittedMonth ==
  Quiescent =>
    \A c \in Clients, t \in Tipos, y \in Years :
      LET months == CommittedMonths(c, t, y)
          entries(m) == {e \in log : /\ e.name = filename(c, t, y)
                                     /\ e.parent = folder_id(c, t)
                                     /\ e.month = m}
          items == year_file_items(drive, c, t, y)
          SheetFor(wb, m) ==
            {i \in 1..Len(wb) :
               \E e \in entries(m) : /\ wb[i].title = e.title
                                     /\ wb[i].df = CleanedUpload(e.file)}
      IN  /\ items = {} => months = {}
          /\ \A id \in items :
               LET wb == download_file(drive, id)
               IN  /\ Len(wb) = Cardinality(months)
                   /\ \A m \in months : Cardinality(SheetFor(wb, m)) = 1

\* C6 (as claimed): when a request has returned, each of its temporary files (the
\* saved upload, the downloaded working copy) is deleted, or its deletion was
\* attempted, or it was never created.
C6_TempFilesReleased ==
  \A p \in Procs :
    Done(p) => /\ req[p].tmp_input \in {"none", "deleted", "locked"}
               /\ req[p].downloaded_file \in {"none", "deleted", "locked"}

\* C7: in a cleaned table, every amount of a credit-note row in a retained monetary
\* column is the scaled input, negated when that is positive and left as it is when
\* it is negative or zero; no such amount is positive.
C7_CreditNoteSign ==
  \A out \in CleanedTables :
    LET input == read_excel(p_file)
        kept == RetainedMonetary(input, out)
    IN  \A i \in 1..Len(input.rows), c \in kept :
          LET amount == input.rows[i][c]
              rate == input.rows[i]["Tipo Cambio"]
              scaled == amount.v * rate.v
          IN  (/\ DenotesCreditNote(AsTypeStr(input.rows[i]["Tipo"]))
               /\ amount.k = "num"
               /\ rate.k = "num")
                => /\ out.rows[i][c] = Num(IF scaled > 0 THEN -scaled ELSE scaled)
                   /\ ~(out.rows[i][c].v > 0)

C7_Witness ==
  \E out \in CleanedTables :
    LET input == read_excel(p_file)
    IN  /\ Len(input.rows) = 2
        /\ {"Neto", "IVA"} \subseteq RetainedMonetary(input, out)
        /\ DenotesCreditNote(AsTypeStr(input.rows[1]["Tipo"]))
        /\ input.rows[1]["Tipo Cambio"] = Num(2)
        /\ input.rows[1]["Neto"] = Num(2) /\ out.rows[1]["Neto"] = Num(-4)
        /\ input.rows[1]["IVA"] = Num(0) /\ out.rows[1]["IVA"] = Num(0)
        /\ DenotesCreditNote(AsTypeStr(input.rows[2]["Tipo"]))
        /\ input.rows[2]["Tipo Cambio"] = Num(2)
        /\ input.rows[2]["IVA"] = Num(-3) /\ out.rows[2]["IVA"] = Num(-6)

\* C8 (as claimed): a row whose type does not denote a credit note keeps the sign
\* of its scaled amounts.
C8_OnlyCreditNotesFlipped ==
  \A out \in CleanedTables :
    LET input == read_excel(p_file)
        kept == RetainedMonetary(input, out)
    IN  \A i \in 1..Len(input.rows), c \in kept :
          LET amount == input.rows[i][c]
              rate == input.rows[i]["Tipo Cambio"]
          IN  (/\ ~DenotesCreditNote(AsTypeStr(input.rows[i]["Tipo"]))
               /\ amount.k = "num"
               /\ rate.k = "num")
                => out.rows[i][c] = Num(amount.v * rate.v)

\* C9: the last row of a cleaned table is the totals row: under each retained
\* monetary column the sum of that column over the data rows above it (as scaled
\* and sign-corrected), and an empty cell under every other column.
C9_TotalsRow ==
  \A out \in CleanedTables :
    LET input == read_excel(p_file)
        n == Len(input.rows)
        kept == RetainedMonetary(input, out)
    IN  /\ Len(out.rows) = n + 1
        /\ \A c \in Range(out.columns) :
             out.rows[n + 1][c] =
               IF c \in kept
               THEN Num(SumOfColumn(out.rows, c, n))
               ELSE Blank

C9_Witness ==
  \E out \in CleanedTables :
    LET input == read_excel(p_file)
    IN  /\ Len(out.rows) = 3
        /\ out.columns = AllColumns
        /\ input.rows[1]["Neto"].k = "str"
        /\ out.rows[3]["Neto"] = Blank
        /\ out.rows[1]["IVA"] = Num(-6)
        /\ out.rows[2]["IVA"] = Num(0)
        /\ out.rows[3]["IVA"] = Num(-6)
        /\ out.rows[3]["Tipo Cambio"] = Blank

\* C10: the sheet a merge writes is the cleaned table of its upload: the data rows
\* and then exactly one totals row, the sums of the rows above it (not scaled, not
\* sign-flipped); and cleaning the processor's rows again gives that same table,
\* the rows the processor holds being those read from the file.
IsTotalsOf(row, df, n) ==
  \A c \in Range(df.columns) :
    row[c] = IF c \in numeric_cols(df) THEN Num(SumOfColumn(df.rows, c, n)) ELSE Blank

C10_TotalsOnceAndCleanRepeatable ==
  \A p \in Procs :
    LET r == req[p]
        input == read_excel(LedgerFiles[r.file])
        n == Len(input.rows)
        written == {r.wb[i].df : i \in {j \in 1..Len(r.wb) : r.wb[j].title = r.month_name}}
    IN  /\ r.pc \in {"check", "create", "download", "merge", "upload", "cleanup"}
          => /\ r.df = input
             /\ clean_data(r.df).df = r.df_clean
        /\ r.pc \in {"upload", "cleanup"} \/ (Done(p) /\ r.response = "success")
          => /\ written = {r.df_clean}
             /\ Len(r.df_clean.rows) = n + 1
             /\ IsTotalsOf(r.df_clean.rows[n + 1], r.df_clean, n)
             /\ \A i \in 1..n : r.df_clean.rows[i]["Tipo"] = input.rows[i]["Tipo"]
        /\ Done(p) /\ r.response = "success"
          => \E id \in year_file_items(drive, r.client, r.tipo, r.year) :
                \E i \in 1..Len(drive[id].wb) :
                   drive[id].wb[i] = [title |-> r.month_name, df |-> r.df_clean]

C10_Witness ==
  \E p \in Procs :
    /\ Done(p)
    /\ req[p].response = "success"
    /\ req[p].file = "enero.xlsx"
    /\ req[p].df_clean.rows[3]["Neto"] = Num(-1)
    /\ req[p].df_clean.rows[1]["Neto"] = Num(-6)
    /\ \E id \in FileIds :
         /\ drive[id].exists
         /\ \E i \in 1..Len(drive[id].wb) : drive[id].wb[i].df = req[p].df_clean

\* C11 (as claimed): every amount of a retained numeric column after the marker is,
\* in magnitude, the input amount times the exchange rate of its row, a row with
\* no exchange rate being scaled by 1; the cells up to the marker are as read.
Abs(n) == IF n < 0 THEN -n ELSE n

C11_CurrencyScaling ==
  \A out \in CleanedTables :
    LET input == read_excel(p_file)
        kept == RetainedMonetary(input, out)
        marker == get_loc(input.columns, "Moneda")
    IN  \A i \in 1..Len(input.rows) :
          /\ \A c \in kept :
               LET amount == input.rows[i][c]
                   rate == input.rows[i]["Tipo Cambio"]
                   factor == IF rate.k = "num" THEN rate.v ELSE 1
               IN  amount.k = "num"
                     => /\ out.rows[i][c].k = "num"
                        /\ Abs(out.rows[i][c].v) = Abs(amount.v * factor)
          /\ \A j \in 1..marker :
               input.rows[i]["Fecha"].k = "str" \/ input.columns[j] # "Fecha"
                 => out.rows[i][input.columns[j]] = input.rows[i][input.columns[j]]

\* C12: clean_data drops a column exactly when it lies after the marker and is
\* entirely empty or entirely zero; the columns it keeps stay in their order, and
\* no column up to the marker is dropped.
EntirelyEmpty(df, col) == \A i \in 1..Len(df.rows) : df.rows[i][col].k = "nan"

EntirelyZero(df, col) == \A i \in 1..Len(df.rows) : df.rows[i][col] = Num(0)

C12_ColumnScrubbing ==
  \A out \in CleanedTables :
    LET input == read_excel(p_file)
        marker == get_loc(input.columns, "Moneda")
    IN  /\ \A j \in 1..Len(input.columns) :
             LET c == input.columns[j]
             IN  c \notin Range(out.columns)
                   <=> (j > marker /\ (EntirelyEmpty(input, c) \/ EntirelyZero(input, c)))
        /\ out.columns = SelectSeq(input.columns, LAMBDA c : c \in Range(out.columns))

C12_Witness ==
  \E out \in CleanedTables :
    LET input == read_excel(p_file)
    IN  /\ Len(input.rows) = 2
        /\ input.rows[1]["IVA"] = Num(0) /\ input.rows[2]["IVA"] = Num(0)
        /\ input.rows[1]["Neto"] = Num(0) /\ input.rows[2]["Neto"] = Num(2)
        /\ "IVA" \notin Range(out.columns)
        /\ "Neto" \in Range(out.columns)

\* The rows of the processor's file whose date can be read.
ParseableRows ==
  LET df == read_excel(p_file)
  IN  {i \in 1..Len(df.rows) : to_datetime(df.rows[i]["Fecha"]).k = "date"}

\* C13 (as claimed): of a file in which no row has a date that can be read, period
\* detection gives the no-valid-dates error and no operation gives a cleaned table.
C13_NoValidDatesRejected ==
  ParseableRows = {}
    => /\ \A i \in 1..Len(p_month) :
            p_month[i].error = "No se encontraron fechas válidas en el archivo"
       /\ \A i \in 1..Len(p_result) : p_result[i].error # ""

\* C14 (as claimed): detect_month gives the month that most of the rows with a
\* readable date fall in, the smallest such month when several months have the
\* highest count, whatever the order of the rows.
C14_DetectedMonth ==
  \A i \in 1..Len(p_month) :
    p_month[i].error = ""
      => LET df == read_excel(p_file)
             n(m) == Cardinality({r \in ParseableRows :
                                    MonthOf(to_datetime(df.rows[r]["Fecha"])) = m})
             top == {m \in 1..12 : n(m) > 0 /\ \A k \in 1..12 : n(k) <= n(m)}
         IN  /\ p_month[i].month \in top
             /\ \A m \in top : p_month[i].month <= m

\* C16: detect_info_from_header fails whenever the examined text has no direction
\* or no CUIT; the error carries the examined text, a cell of the first row, and
\* no header; a header that is returned has a direction and a CUIT of 11 digits
\* read from that row.
HasDigitRun(text, n) ==
  \E i \in 1..(Len(text) - n + 1) : AllDigits(SubSeq(text, i, i + n - 1))

HasDirection(text) ==
  \/ Contains(Lower(text), <<"e","m","i","t","i","d","o","s">>)
  \/ Contains(Lower(text), <<"r","e","c","i","b","i","d","o","s">>)

C16_HeaderDetectionError ==
  \A i \in 1..Len(p_header) :
    LET r == p_header[i]
        cells == p_file.banner
        examined == IF r.error = "" THEN {c \in Range(cells) : Contains(c, r.cuit)}
                    ELSE {r.encabezado}
    IN  /\ examined # {} /\ examined \subseteq Range(cells)
        /\ r.error # "" => r.cuit = << >> /\ r.tipo = ""
        /\ r.error = ""
             => /\ Len(r.cuit) = 11 /\ AllDigits(r.cuit)
                /\ r.tipo \in {"ventas", "compras"}
                /\ \E c \in examined : HasDirection(c)
        /\ (\A c \in Range(cells) : ~HasDirection(c)) => r.error # ""
        /\ (\A c \in Range(cells) : ~HasDigitRun(c, 11)) => r.error # ""

C16_Witness ==
  \E i \in 1..Len(p_header) :
    /\ p_header[i].error # ""
    /\ HasDirection(p_header[i].encabezado)
    /\ ~HasDigitRun(p_header[i].encabezado, 11)
    /\ p_header[i].encabezado = p_file.banner[1]
    /\ Len(p_file.banner) = 1

\* C15: a request whose file has no column "Moneda" gets no cleaned table; it
\* goes to the error exit with the message of the missing column, and it issues
\* no step of the store protocol (no locate, create, fetch or replace).
MissingMarker(file) == "Moneda" \notin Range(LedgerFiles[file].columns)

C15_MissingMarkerBeforeStore ==
  \A p \in Procs :
    (req[p].pc # "idle" /\ MissingMarker(req[p].file))
      => /\ req[p].pc \in {"error", "done"}
         /\ req[p].df_clean = NoTable
         /\ req[p].detail = "No se encontró la columna 'Moneda' en el Excel"
         /\ Done(p) => req[p].response = "http500"
         /\ req[p].steps = << >>
         /\ req[p].located = ""
         /\ req[p].writes = << >>
         /\ drive = req[p].store0

C15_Witness ==
  \E p \in Procs :
    /\ Done(p)
    /\ MissingMarker(req[p].file)
    /\ req[p].response = "http500"
    /\ req[p].steps = << >>

\* C17: when update_file returns without error, the store holds under the name
\* and the folder of the yearly workbook an Excel file (not a Google Sheets
\* document) whose content is the working copy that was written, also when the
\* stored file had drifted to Google Sheets and was deleted and uploaded anew.
C17_ReplaceLeavesNativeWorkbook ==
  [][\A p \in Procs :
       (req[p].pc = "upload" /\ req'[p].pc = "cleanup")
         => LET r == req'[p]
                items == year_file_items(drive', r.client, r.tipo, r.year)
            IN  /\ items # {}
                /\ \A id \in items : /\ drive'[id].mime = XLSX
                                     /\ drive'[id].wb = r.wb
                /\ r.wb = req[p].wb]_vars

C17_Witness ==
  \E p \in Procs :
    /\ req[p].pc = "cleanup"
    /\ req[p].writes = <<"delete", "upload">>
    /\ drive[req[p].file_id].exists = FALSE
    /\ \E id \in year_file_items(drive, req[p].client, req[p].tipo, req[p].year) :
         /\ drive[id].mime = XLSX
         /\ drive[id].wb = req[p].wb
         /\ Len(drive[id].wb) = 2

\* C18 (as claimed): a merge that ends with a failure (HTTP 500) leaves the store
\* as it was when the merge began: no workbook made by it remains and none has
\* been deleted.
C18_FailureLeavesStore ==
  \A p \in Procs :
    (Done(p) /\ req[p].response = "http500") => drive = req[p].store0

\* Whether a workbook holds a sheet of a title, and a workbook without its
\* placeholder sheet.
HasSheet(wb, title) == \E i \in 1..Len(wb) : wb[i].title = title

WithoutPlaceholder(wb) == SelectSeq(wb, LAMBDA sh : sh.title # "_temp")

\* C19: with two merges of one yearly workbook in flight at once, each merge runs
\* its duplicate check on the copy it fetched itself, and a replace that succeeds
\* makes the stored workbook that copy plus the merge's own sheet, whatever the
\* store held by then.  So both merges can end with success while the stored
\* workbook lacks the sheet of one of them, and two merges of one month can both
\* end with success.
C19_ReplaceOverwritesWithOwnCopy ==
  [][\A p \in Procs :
       /\ (req[p].pc = "merge" /\ req'[p].pc # "merge")
            => (req'[p].response = "http400"
                  <=> HasSheet(req[p].fetched, req[p].month_name))
       /\ (req[p].pc = "upload" /\ req'[p].pc = "cleanup")
            => LET r == req[p]
                   own == Append(WithoutPlaceholder(r.fetched),
                                 [title |-> r.month_name, df |-> r.df_clean])
               IN  /\ ~HasSheet(r.fetched, r.month_name)
                   /\ drive'[r.file_id].exists
                   /\ drive'[r.file_id].wb = own]_vars

C19_Witness ==
  \E p, q \in Procs :
    /\ p # q
    /\ Done(p) /\ req[p].response = "success"
    /\ Done(q) /\ req[q].response = "success"
    /\ req[p].file_id = req[q].file_id
    /\ req[p].month # req[q].month
    /\ req[p].month_name # req[q].month_name
    /\ drive[req[p].file_id].exists
    /\ HasSheet(drive[req[p].file_id].wb, req[p].month_name)
    /\ ~HasSheet(drive[req[p].file_id].wb, req[q].month_name)

\* The other half of the race: two merges of one month, in flight at once, that
\* both ended with success.
C19_SameMonthTwice ==
  \E p, q \in Procs :
    /\ p # q
    /\ Done(p) /\ req[p].response = "success"
    /\ Done(q) /\ req[q].response = "success"
    /\ req[p].file_id = req[q].file_id
    /\ req[p].month = req[q].month
    /\ req[p].month_name = req[q].month_name

\* The remote operations a merge may have issued so far, in their order.
StepOrders ==
  {<<"locate", "fetch", "add_sheet", "replace">>,
   <<"locate", "create", "fetch", "add_sheet", "replace">>}

IsPrefix(s, t) == Len(s) <= Len(t) /\ s = SubSeq(t, 1, Len(s))

NewSheet(p) == [title |-> req[p].month_name, df |-> req[p].df_clean]

\* C20 (amended): within one merge the remote operations come in the order
\* locate, then (when the workbook was absent) create, then fetch, then the
\* duplicate check on the fetched copy, then replace; replace is issued only
\* after a fetch of the same merge and only when the fetched copy held no sheet
\* of the month's name; and the workbook replaced is the fetched copy without its
\* placeholder sheet "_temp", plus the one new sheet.
C20_MergeOrder ==
  \A p \in Procs :
    LET r == req[p]
    IN  /\ \E full \in StepOrders : IsPrefix(r.steps, full)
        /\ ("create" \in Range(r.steps)) => r.located = "absent"
        /\ (r.pc = "upload" \/ "replace" \in Range(r.steps))
             => /\ "fetch" \in Range(r.steps)
                /\ ~HasSheet(r.fetched, r.month_name)
                /\ r.wb = Append(WithoutPlaceholder(r.fetched), NewSheet(p))
        /\ (r.pc = "cleanup" /\ r.writes # << >> /\ r.writes[Len(r.writes)] = "replace")
             => drive[r.file_id].wb = Append(WithoutPlaceholder(r.fetched), NewSheet(p))

\* A merge that replaced a workbook it had fetched with its placeholder sheet.
C20_Witness ==
  \E p \in Procs :
    /\ Done(p) /\ req[p].response = "success"
    /\ req[p].steps = <<"locate", "create", "fetch", "add_sheet", "replace">>
    /\ HasSheet(req[p].fetched, "_temp")
    /\ drive[req[p].file_id].wb = <<NewSheet(p)>>

\* C20 (as claimed): the same, with the workbook replaced being the fetched copy
\* plus the one new sheet.
C20_ReplacedIsFetchedPlusSheet ==
  \A p \in Procs :
    LET r == req[p]
    IN  /\ \E full \in StepOrders : IsPrefix(r.steps, full)
        /\ (r.pc = "upload" \/ "replace" \in Range(r.steps))
             => /\ "fetch" \in Range(r.steps)
                /\ ~HasSheet(r.fetched, r.month_name)
                /\ r.wb = Append(r.fetched, NewSheet(p))

\* How many times an operation occurs among the remote operations of a merge.
Count(steps, op) == Cardinality({i \in 1..Len(steps) : steps[i] = op})

\* C21: within one merge create is invoked at most once and replace at most
\* once, also when a remote call failed: after a failure the merge issues no
\* further remote operation and changes nothing in the store.
C21_WritesNeverRetried ==
  [][\A p \in Procs :
       /\ Count(req'[p].steps, "create") <= 1
       /\ Count(req'[p].steps, "replace") <= 1
       /\ (req[p].pc = "error")
            => /\ req'[p].steps = req[p].steps
               /\ req'[p].writes = req[p].writes
               /\ req'[p].pc \in {"error", "done"}
               /\ drive' = drive]_vars

\* A merge whose create succeeded and whose replace failed, ended with the error.
C21_Witness ==
  \E p \in Procs :
    /\ Done(p) /\ req[p].response = "http500"
    /\ req[p].steps = <<"locate", "create", "fetch", "add_sheet", "replace">>
    /\ req[p].writes = <<"create">>

\* The files a store holds.
StoredIds(files) == {id \in FileIds : files[id].exists}

\* C22: a merge that has passed the confirmation gate has invoked create exactly
\* when locate reported the workbook absent and the confirm-create flag is set;
\* when locate found the workbook, the merge works on that file, whatever the
\* flag, and no file is added to the store.
C22_CreateOnlyWhenAbsentAndConfirmed ==
  \A p \in Procs :
    LET r == req[p]
    IN  (r.pc \notin {"idle", "check", "create"})
          => /\ ("create" \in Range(r.steps))
                  <=> (r.located = "absent" /\ r.create_if_not_exists)
             /\ (r.located = "present")
                  => /\ r.file_id \in StoredIds(r.store0)
                     /\ r.store0[r.file_id].name = filename(r.client, r.tipo, r.year)
                     /\ "create" \notin Range(r.writes)
                     /\ StoredIds(drive) = StoredIds(r.store0)

\* A merge with the flag set into a workbook that was there.
C22_Witness ==
  \E p \in Procs :
    /\ Done(p) /\ req[p].response = "success"
    /\ req[p].located = "present"
    /\ req[p].create_if_not_exists
    /\ "create" \notin Range(req[p].steps)

\* The keys of the yearly workbooks.
Keys == Clients \X Tipos \X Years

\* C23: under sequential operation the store never holds more workbooks than
\* keys; and a merge that begins when the store holds the workbook an earlier
\* merge created finds it by locate: it does not ask for confirmation, invokes
\* no create, and works on the stored file.
C23_OneWorkbookPerKey ==
  /\ Cardinality(StoredIds(drive)) <= Cardinality(Keys)
  /\ \A p \in Procs :
       LET r == req[p]
       IN  (r.located # "" /\ StoredIds(r.store0) # {})
             => /\ r.located = "present"
                /\ r.file_id \in StoredIds(r.store0)
                /\ r.response # "needs_confirmation"
                /\ "create" \notin Range(r.steps)
                /\ StoredIds(drive) = StoredIds(r.store0)

\* A merge without the confirm flag that found the workbook an earlier merge had
\* created.
C23_Witness ==
  \E p \in Procs :
    /\ Done(p) /\ req[p].response = "success"
    /\ ~req[p].create_if_not_exists
    /\ req[p].located = "present"
    /\ StoredIds(req[p].store0) # {}
    /\ Len(drive[req[p].file_id].wb) = 2

\* The failures of a finished merge, by their cause.
InputFailure(p) == Done(p) /\ MissingMarker(req[p].file)

RemoteFailure(p) ==
  /\ Done(p)
  /\ req[p].detail \in {"drive: list failed", "drive: create failed",
                        "drive: download failed", "drive: update failed",
                        "drive: upload failed"}

Conflict(p) ==
  /\ Done(p)
  /\ req[p].steps # << >>
  /\ req[p].steps[Len(req[p].steps)] = "add_sheet"
  /\ HasSheet(req[p].fetched, req[p].month_name)

\* C24 (as claimed): a merge that failed on its input and a merge that failed on
\* the remote store never end with the same status, and a merge that ended on
\* a duplicate month ends with a status different from both.
C24_FailuresDistinguishable ==
  \A p, q \in Procs :
    /\ (InputFailure(p) /\ RemoteFailure(q)) => req[p].response # req[q].response
    /\ (Conflict(p) /\ (InputFailure(q) \/ RemoteFailure(q)))
         => req[p].response # req[q].response

\* C25: after a replace that succeeded, the cleanup loop runs at most 3 rounds
\* and then stops, whether or not the temporary files could be deleted, and the
\* merge ends with the success response; the loop touches nothing in the store.
C25_CleanupBoundedAndHarmless ==
  [][\A p \in Procs :
       (req[p].pc = "cleanup" /\ req'[p] # req[p])
         => /\ req'[p].pc = "done"
            /\ req'[p].response = "success"
            /\ req'[p].rounds \in 1..3
            /\ req'[p].tmp_input \in {"deleted", "locked"}
            /\ req'[p].downloaded_file \in {"deleted", "locked", "exists"}
            /\ (req'[p].rounds < 3)
                 => (req'[p].tmp_input = "deleted" /\ req'[p].downloaded_file = "deleted")
            /\ req'[p].writes = req[p].writes
            /\ drive' = drive]_vars

\* A merge that reported success although the saved upload stayed locked through
\* all three rounds.
C25_Witness ==
  \E p \in Procs :
    /\ Done(p) /\ req[p].response = "success"
    /\ req[p].rounds = 3
    /\ req[p].tmp_input = "locked"
    /\ req[p].writes # << >>

\* C26 (as claimed): every client name the registry lists has its folder in the
\* store, with the Ventas and the Compras sub-folder, and a merge for a listed
\* client is never answered with client-not-found.
C26_ListedClientsHaveFolders ==
  /\ \A cuit \in DOMAIN mapping :
       /\ mapping[cuit] \in DOMAIN folders
       /\ folders[mapping[cuit]] = {"Ventas", "Compras"}
  /\ (client_req.op = "process") => client_req.status = "located"

\* C27: a request about a client leaves the registry entries of every other CUIT
\* as they were.  create-client with a registered CUIT is answered 400 with the
\* registry and the store unchanged; edit-client to another CUIT that is
\* registered is answered 400, and edit-client of an unknown CUIT 404, both with
\* the registry unchanged; a successful edit-client keeps the number of entries.
C27_RegistryEntriesKept ==
  LET r == client_req
      before == r.mapping0
  IN  /\ \A c \in DOMAIN before :
           (c \notin {r.cuit, r.old_cuit}) => (c \in DOMAIN mapping /\ mapping[c] = before[c])
      /\ (r.op = "create" /\ r.cuit \in DOMAIN before)
           => (r.status = "http400" /\ mapping = before /\ folders = r.folders0)
      /\ (r.op = "edit" /\ r.old_cuit \in DOMAIN before
            /\ r.cuit # r.old_cuit /\ r.cuit \in DOMAIN before)
           => (r.status = "http400" /\ mapping = before)
      /\ (r.op = "edit" /\ r.old_cuit \notin DOMAIN before)
           => (r.status = "http404" /\ mapping = before)
      /\ (r.op = "edit" /\ r.status = "success")
           => /\ Cardinality(DOMAIN mapping) = Cardinality(DOMAIN before)
              /\ r.cuit \in DOMAIN mapping /\ mapping[r.cuit] = r.name
      /\ (r.status \notin {"success", ""}) => mapping = before

\* An edit-client to the CUIT of another registered client, refused.
C27_Witness ==
  /\ client_req.op = "edit"
  /\ client_req.status = "http400"
  /\ client_req.cuit # client_req.old_cuit
  /\ Cardinality(DOMAIN mapping) = 2
  /\ mapping = client_req.mapping0

====
